---- MODULE Spec2Model ----
(***************************************************************************)
(* A model of safesql: the call-graph pass FindNonConstCalls, the sink     *)
(* resolver FindQueryMethods, the analyzer entry point run with its two    *)
(* passes, and the suppression check CheckIssues.                          *)
(***************************************************************************)
EXTENDS Integers, Sequences, FiniteSets, TLC

VARIABLES
    \* FindNonConstCalls: the call graph, the tracked methods, the locals
    \* okFuncs and bad, the position in the two loops, the lists returned
    cg, qms, okFuncs, bad, pc, mi, ei, returned,
    \* FindQueryMethods: the scope of the library, the catalog entry, the
    \* list returned
    scope, entry, methods,
    \* run: the compilation unit (the pass), the position in run, the local
    \* err, the diagnostics reported, the findings printed, the passes
    \* performed, what run returned
    unit, rpc, err, reports, printed, passes, ret,
    \* CheckIssues: the source file, the positions handed in, the issues
    \* returned, whether it has returned
    file, tokens, issues, checked

engineVars  == <<cg, qms, okFuncs, bad, pc, mi, ei, returned>>
resolveVars == <<scope, entry, methods>>
runVars     == <<unit, rpc, err, reports, printed, passes, ret>>
issueVars   == <<file, tokens, issues, checked>>

vars == <<engineVars, resolveVars, runVars, issueVars>>

(***************************************************************************)
(* Bounds of the model.                                                    *)
(***************************************************************************)
\* the largest number of call edges the pointer analysis hands over
MaxEdges == 2
\* the largest number of operands of a call site
MaxArgs == 2
\* how many times in a row FindNonConstCalls is called on the graph
MaxCalls == 2
\* the largest number of names in the scope of a library, of methods of a
\* type, of parameters of a method
MaxObjects == 2
MaxMethods == 2
MaxParams == 2
\* the largest number of call expressions in a unit, and of call sites
\* FindNonConstCalls returns for it
MaxCallExprs == 2
MaxFindings == 1
\* the largest number of lines of a source file, and of positions handed to
\* CheckIssues
MaxLines == 4
MaxTokens == 2

(***************************************************************************)
(* The catalog (var sqlPackages).  A package path is the sequence of the   *)
(* pieces of its text, so that one path can be a proper prefix of another: *)
(* <<"database/sql", "/driver">> is the path database/sql/driver.          *)
(***************************************************************************)
sqlPackages ==
    << [packageName |-> <<"database/sql">>,            paramNames |-> {"query"}],
       [packageName |-> <<"github.com/jinzhu/gorm">>,  paramNames |-> {"sql", "query"}],
       [packageName |-> <<"github.com/jmoiron/sqlx">>, paramNames |-> {"query"}] >>

(***************************************************************************)
(* SSA values.  op is the concrete value kind the type switch sees, typ    *)
(* its static type, X the operand of a MakeInterface.                      *)
(***************************************************************************)
NoOperand == [op |-> "none", typ |-> "none"]

\* what a MakeInterface may wrap, one value for each answer of the two
\* tests made on it: a string literal (no referrers, string), the address
\* of a package-level string variable (no referrers, not string), a string
\* variable with two writers, i.e. a Phi of a literal and a runtime string
\* (referrers, string), a variable of a named string type with two writers
\* (referrers, not string)
Operands ==
    { [op |-> "Const",     typ |-> "string"],
      [op |-> "Global",    typ |-> "*string"],
      [op |-> "Phi",       typ |-> "string"],
      [op |-> "Phi",       typ |-> "MyString"] }

Values ==
    { [op |-> "Const",     typ |-> "string", X |-> NoOperand],
      [op |-> "Parameter", typ |-> "string", X |-> NoOperand] }
    \cup { [op |-> "MakeInterface", typ |-> "interface", X |-> x] : x \in Operands }

\* Value.Referrers(): nil for the values that belong to no function
\* (constants, globals, functions, builtins), the referrer list otherwise
ReferrersIsNil(x) == x.op \in {"Const", "Global", "Function", "Builtin"}

\* types.IsInterface(t)
IsInterface(t) == t = "interface"

ArgLists == UNION { [1..n -> Values] : n \in 1..MaxArgs }

(***************************************************************************)
(* Functions of the analysed program.                                      *)
(***************************************************************************)
\* two exported methods of database/sql with a query parameter, a function
\* of the analysed package
SinkFuncs   == {"(*DB).M1", "(*DB).M2"}
SourceFuncs == {"(*DB).M2", "a_pass.runDbQuery"}
\* a compiler-made wrapper (a bound-method closure)
SyntheticFuncs == {"(*DB).M1$bound"}
Funcs == SinkFuncs \cup SourceFuncs \cup SyntheticFuncs

\* fn.Synthetic != ""
Synthetic(fn) == fn \in SyntheticFuncs

\* Func.Pkg.Pkg.Path(); a wrapper belongs to no package
PkgPath(fn) ==
    IF fn \in SinkFuncs THEN <<"database/sql">>
    ELSE IF fn \in SyntheticFuncs THEN <<>>
    ELSE <<"a_pass">>

(***************************************************************************)
(* Call sites and call edges.  A call site is an instruction of its        *)
(* Parent with the operand list Args; an edge joins a site to one callee.  *)
(***************************************************************************)
\* a wrapper hands its own parameters on
WrapperArgs == UNION { [1..n -> {[op |-> "Parameter", typ |-> "string", X |-> NoOperand]}] : n \in 1..MaxArgs }

Sites ==
    { [Parent |-> f, Args |-> a] : f \in SourceFuncs, a \in ArgLists }
    \cup { [Parent |-> f, Args |-> a] : f \in SyntheticFuncs, a \in WrapperArgs }

Edges ==
    { [Caller |-> s.Parent, Site |-> s, Callee |-> g] :
        s \in Sites, g \in SinkFuncs \cup SyntheticFuncs }

\* the wrapper of M1 calls M1 and nothing else
CallEdges == { e \in Edges : Synthetic(e.Caller) => e.Callee = "(*DB).M1" }

Graphs == UNION { [1..n -> CallEdges] : n \in 0..MaxEdges }

\* node.In of the node of fn
In(g, fn) == SelectSeq(g, LAMBDA e : e.Callee = fn)
\* node.Out
Out(g, fn) == SelectSeq(g, LAMBDA e : e.Caller = fn)
\* cg.Nodes[fn] != nil
HasNode(g, fn) == \E k \in 1..Len(g) : g[k].Caller = fn \/ g[k].Callee = fn

SeqToSet(s) == { s[k] : k \in 1..Len(s) }

(***************************************************************************)
(* callgraph.Graph.DeleteSyntheticNodes: calls to synthetic wrappers are   *)
(* inlined (one new edge per in-edge and out-edge, unless the graph has    *)
(* it already), then the wrapper's node goes with its edges.               *)
(***************************************************************************)
RECURSIVE AddInlined(_, _)
AddInlined(g, pairs) ==
    IF pairs = <<>> THEN g
    ELSE LET eIn     == Head(pairs)[1]
             eOut    == Head(pairs)[2]
             newEdge == [Caller |-> eIn.Caller, Site |-> eIn.Site, Callee |-> eOut.Callee]
         IN  IF newEdge \in SeqToSet(g)
             THEN AddInlined(g, Tail(pairs))
             ELSE AddInlined(Append(g, newEdge), Tail(pairs))

RECURSIVE Pairs(_, _)
Pairs(ins, outs) ==
    IF ins = <<>> THEN <<>>
    ELSE [k \in 1..Len(outs) |-> <<Head(ins), outs[k]>>] \o Pairs(Tail(ins), outs)

\* a DeleteNode that unlinks only the first edge of the node
DeleteNode_FirstEdge(g, fn) ==
    IF \E k \in 1..Len(g) : g[k].Caller = fn \/ g[k].Callee = fn
    THEN LET k == CHOOSE i \in 1..Len(g) :
                     /\ (g[i].Caller = fn \/ g[i].Callee = fn)
                     /\ \A h \in 1..(i - 1) : g[h].Caller # fn /\ g[h].Callee # fn
         IN  SubSeq(g, 1, k - 1) \o SubSeq(g, k + 1, Len(g))
    ELSE g

DeleteNode(g, fn) == SelectSeq(g, LAMBDA e : e.Caller # fn /\ e.Callee # fn)

RECURSIVE DeleteEach(_, _)
DeleteEach(g, fns) ==
    IF fns = {} THEN g
    ELSE LET fn == CHOOSE f \in fns : TRUE
         IN  DeleteEach(DeleteNode(AddInlined(g, Pairs(In(g, fn), Out(g, fn))), fn),
                        fns \ {fn})

DeleteSyntheticNodes(g) == DeleteEach(g, { fn \in SyntheticFuncs : HasNode(g, fn) })

(***************************************************************************)
(* The tracked sink methods (type QueryMethod): the SSA function, the      *)
(* declared parameter count and the index of the query parameter.          *)
(***************************************************************************)
\* what FindQueryMethods hands over for the library: M1 declared as
\* M1(query) or M1(query, x), and M2 declared as M2(x, query) or with no
\* query parameter at all (then it is not tracked)
QmsChoices ==
    { << [SSA |-> "(*DB).M1", ArgCount |-> n, Param |-> 0] >> \o t :
        n \in {1, 2},
        t \in { <<>>, << [SSA |-> "(*DB).M2", ArgCount |-> 2, Param |-> 1] >> } }

(***************************************************************************)
(* FindNonConstCalls, one loop iteration per step.                         *)
(***************************************************************************)
\* m of the outer loop, node.In of its node, edge of the inner loop
CurMethod == qms[mi]
CurIn     == IF HasNode(cg, CurMethod.SSA) THEN In(cg, CurMethod.SSA) ELSE <<>>
CurEdge   == CurIn[ei]
AtEdge    == pc = "loop" /\ mi <= Len(qms) /\ ei <= Len(CurIn)

\* _, ok := okFuncs[edge.Site.Parent()]
IsOkFunc(e, ok) == e.Site.Parent \in ok

\* the loop over sqlPackages comparing packageName with the caller's path
IsInternalSQLPkg(e) ==
    \E k \in 1..Len(sqlPackages) : sqlPackages[k].packageName = PkgPath(e.Caller)

\* len(args) == m.ArgCount+1 drops the receiver; len(args) != m.ArgCount panics
ArgCountMismatch(args, m) == Len(args) # m.ArgCount + 1 /\ Len(args) # m.ArgCount

\* a selection that forgets the receiver
DesignatedArg_NoReceiver(args, m) == args[m.Param + 1]

\* v := args[m.Param], after the receiver is dropped
DesignatedArg(args, m) ==
    IF Len(args) = m.ArgCount + 1 THEN Tail(args)[m.Param + 1] ELSE args[m.Param + 1]

\* a type switch that recognises no constant
IsConst_Never(v) == FALSE

\* _, ok := v.(*ssa.Const)
IsConst(v) == v.op = "Const"

\* the MakeInterface branch that ends in continue
IsBoxedSkip(v) ==
    /\ v.op = "MakeInterface"
    /\ IsInterface(v.typ)
    /\ (ReferrersIsNil(v.X) \/ v.X.typ # "string")

FindNonConstCalls_Begin ==
    /\ pc = "idle"
    /\ Len(returned) < MaxCalls
    /\ cg' = DeleteSyntheticNodes(cg)
    /\ okFuncs' = { qms[k].SSA : k \in 1..Len(qms) }
    /\ bad' = <<>>
    /\ mi' = 1
    /\ ei' = 1
    /\ pc' = "loop"
    /\ UNCHANGED <<qms, returned,
                 resolveVars, runVars, issueVars>>

\* node == nil, or node.In is exhausted: the next m
NextQueryMethod ==
    /\ pc = "loop"
    /\ mi <= Len(qms)
    /\ ei > Len(CurIn)
    /\ mi' = mi + 1
    /\ ei' = 1
    /\ UNCHANGED <<cg, qms, okFuncs, bad, pc, returned,
                 resolveVars, runVars, issueVars>>

SkipOkFunc ==
    /\ AtEdge
    /\ IsOkFunc(CurEdge, okFuncs)
    /\ ei' = ei + 1
    /\ UNCHANGED <<cg, qms, okFuncs, bad, pc, mi, returned,
                 resolveVars, runVars, issueVars>>

SkipInternalSQLPkg ==
    /\ AtEdge
    /\ ~IsOkFunc(CurEdge, okFuncs)
    /\ IsInternalSQLPkg(CurEdge)
    /\ ei' = ei + 1
    /\ UNCHANGED <<cg, qms, okFuncs, bad, pc, mi, returned,
                 resolveVars, runVars, issueVars>>

Visited == AtEdge /\ ~IsOkFunc(CurEdge, okFuncs) /\ ~IsInternalSQLPkg(CurEdge)

PanicArgCount ==
    /\ Visited
    /\ ArgCountMismatch(CurEdge.Site.Args, CurMethod)
    /\ pc' = "panic"
    /\ UNCHANGED <<cg, qms, okFuncs, bad, mi, ei, returned,
                 resolveVars, runVars, issueVars>>

Classified == Visited /\ ~ArgCountMismatch(CurEdge.Site.Args, CurMethod)

ConstArg ==
    /\ Classified
    /\ IsConst(DesignatedArg(CurEdge.Site.Args, CurMethod))
    /\ ei' = ei + 1
    /\ UNCHANGED <<cg, qms, okFuncs, bad, pc, mi, returned,
                 resolveVars, runVars, issueVars>>

BoxedArg ==
    /\ Classified
    /\ ~IsConst(DesignatedArg(CurEdge.Site.Args, CurMethod))
    /\ IsBoxedSkip(DesignatedArg(CurEdge.Site.Args, CurMethod))
    /\ ei' = ei + 1
    /\ UNCHANGED <<cg, qms, okFuncs, bad, pc, mi, returned,
                 resolveVars, runVars, issueVars>>

AppendBad ==
    /\ Classified
    /\ ~IsConst(DesignatedArg(CurEdge.Site.Args, CurMethod))
    /\ ~IsBoxedSkip(DesignatedArg(CurEdge.Site.Args, CurMethod))
    /\ bad' = Append(bad, CurEdge.Site)
    /\ ei' = ei + 1
    /\ UNCHANGED <<cg, qms, okFuncs, pc, mi, returned,
                 resolveVars, runVars, issueVars>>

FindNonConstCalls_Return ==
    /\ pc = "loop"
    /\ mi > Len(qms)
    /\ returned' = Append(returned, bad)
    /\ pc' = "idle"
    /\ UNCHANGED <<cg, qms, okFuncs, bad, mi, ei,
                 resolveVars, runVars, issueVars>>

EngineInit ==
    /\ cg \in Graphs
    /\ qms \in QmsChoices
    /\ okFuncs = {}
    /\ bad = <<>>
    /\ pc = "idle"
    /\ mi = 1
    /\ ei = 1
    /\ returned = <<>>

\* the pass at rest, for the specifications of the other operations
EngineIdle ==
    /\ cg = <<>>
    /\ qms = <<>>
    /\ okFuncs = {}
    /\ bad = <<>>
    /\ pc = "off"
    /\ mi = 1
    /\ ei = 1
    /\ returned = <<>>

EngineNext ==
    \/ FindNonConstCalls_Begin
    \/ NextQueryMethod
    \/ SkipOkFunc
    \/ SkipInternalSQLPkg
    \/ PanicArgCount
    \/ ConstArg
    \/ BoxedArg
    \/ AppendBad
    \/ FindNonConstCalls_Return

(***************************************************************************)
(* FindQueryMethods and FuncHasQuery.  The scope of the library is the     *)
(* list of its package-level objects in the order of scope.Names(); a      *)
(* type name carries the methods of its named type, a method the names of  *)
(* its parameters.                                                         *)
(***************************************************************************)
ParamNames == {"query", "sql"}

Signatures == UNION { [1..n -> ParamNames] : n \in 0..MaxParams }

Methods == { [exported |-> x, params |-> s] : x \in BOOLEAN, s \in Signatures }

MethodLists == UNION { [1..n -> Methods] : n \in 0..MaxMethods }

\* a type name with its methods, or a function, variable or constant
Objects ==
    { [exported |-> x, isTypeName |-> TRUE, methods |-> ms] : x \in BOOLEAN, ms \in MethodLists }
    \cup { [exported |-> x, isTypeName |-> FALSE, methods |-> <<>>] : x \in BOOLEAN }

Scopes == UNION { [1..n -> Objects] : n \in 0..MaxObjects }

\* a scan that keeps the last parameter with a recognized name
RECURSIVE FuncHasQuery_Last(_, _)
FuncHasQuery_Last(sqlPackage, params) ==
    IF params = <<>> THEN [offset |-> 0, ok |-> FALSE]
    ELSE IF params[Len(params)] \in sqlPackage.paramNames
         THEN [offset |-> Len(params) - 1, ok |-> TRUE]
         ELSE FuncHasQuery_Last(sqlPackage, SubSeq(params, 1, Len(params) - 1))

\* the loop of FuncHasQuery from parameter i (counted from 0) on
RECURSIVE FuncHasQueryFrom(_, _, _)
FuncHasQueryFrom(sqlPackage, params, i) ==
    IF i >= Len(params) THEN [offset |-> 0, ok |-> FALSE]
    ELSE IF params[i + 1] \in sqlPackage.paramNames
         THEN [offset |-> i, ok |-> TRUE]
         ELSE FuncHasQueryFrom(sqlPackage, params, i + 1)

FuncHasQuery(sqlPackage, params) == FuncHasQueryFrom(sqlPackage, params, 0)

\* the inner loop of FindQueryMethods over the methods of the o-th object,
\* from method i (counted from 1) on
RECURSIVE MethodsOfType(_, _, _, _)
MethodsOfType(sqlPackage, o, ms, i) ==
    IF i > Len(ms) THEN <<>>
    ELSE LET m == ms[i]
             r == FuncHasQuery(sqlPackage, m.params)
         IN  IF m.exported /\ r.ok
             THEN << [Func |-> <<o, i>>, ArgCount |-> Len(m.params), Param |-> r.offset] >>
                    \o MethodsOfType(sqlPackage, o, ms, i + 1)
             ELSE MethodsOfType(sqlPackage, o, ms, i + 1)

\* the outer loop over scope.Names(), from object o on
RECURSIVE FindQueryMethodsFrom(_, _, _)
FindQueryMethodsFrom(sqlPackage, sc, o) ==
    IF o > Len(sc) THEN <<>>
    ELSE IF ~sc[o].exported \/ ~sc[o].isTypeName
         THEN FindQueryMethodsFrom(sqlPackage, sc, o + 1)
         ELSE MethodsOfType(sqlPackage, o, sc[o].methods, 1)
                \o FindQueryMethodsFrom(sqlPackage, sc, o + 1)

FindQueryMethods(sqlPackage, sc) == FindQueryMethodsFrom(sqlPackage, sc, 1)

NotCalled == "not called"

Resolve ==
    /\ methods = NotCalled
    /\ methods' = FindQueryMethods(sqlPackages[entry], scope)
    /\ UNCHANGED <<scope, entry, engineVars, runVars, issueVars>>

ResolveInit ==
    /\ scope \in Scopes
    /\ entry \in 1..Len(sqlPackages)
    /\ methods = NotCalled

ResolveIdle ==
    /\ scope = <<>>
    /\ entry = 1
    /\ methods = NotCalled

(***************************************************************************)
(* run, CheckSafeSqlSsa and CheckSafeSqlAst on one compilation unit.  The  *)
(* unit has its package path, whether it declares main, the number of      *)
(* call sites FindNonConstCalls returns for its call graph, and its call   *)
(* expressions in the order of the inspector's walk.                       *)
(***************************************************************************)
UnitPaths ==
    { <<"a_pass">>,
      <<"database/sql">>,
      <<"database/sql", "/driver">>,
      <<"github.com/jinzhu/gorm">> }

\* fn.Pkg() == nil
NoPkg == <<>>

\* the packages a called function may belong to
CalleePkgs == { NoPkg, <<"database/sql">>, <<"fmt">> }

\* the syntax of an argument: a string literal, another basic literal, an
\* identifier of a constant or of a local bound once to a literal, a call
\* such as fmt.Sprintf
ArgExprs == { "BasicLit STRING", "BasicLit INT", "Ident", "CallExpr" }

\* a call expression: whether its callee resolves to a *types.Func, the
\* package and the parameter names of that function, the arguments
CallExprs ==
    { [isFunc |-> FALSE, pkg |-> NoPkg, params |-> <<>>, args |-> <<>>] }
    \cup UNION { { [isFunc |-> TRUE, pkg |-> k, params |-> ps, args |-> as] :
                     k \in CalleePkgs, ps \in [1..n -> ParamNames], as \in [1..n -> ArgExprs] } :
                 n \in 0..MaxParams }

\* a call site in the call graph is a call expression in the syntax
Units ==
    { u \in [ path : UnitPaths, hasMain : BOOLEAN, nonConst : 0..MaxFindings,
              calls : UNION { [1..n -> CallExprs] : n \in 0..MaxCallExprs } ] :
        u.nonConst > 0 => u.calls # <<>> }

NoError == "nil"
SsaError == "found safesql errors"
AstError == "potentially unsafe SQL queries found"

\* strings.HasPrefix(s, prefix)
HasPrefix(s, prefix) ==
    /\ Len(prefix) <= Len(s)
    /\ SubSeq(s, 1, Len(prefix)) = prefix

\* a loop that looks at the first catalog entry only
IsAllowlisted_FirstOnly(path) == HasPrefix(path, sqlPackages[1].packageName)

\* the loop at the head of run
IsAllowlisted(path) ==
    \E k \in 1..Len(sqlPackages) : HasPrefix(path, sqlPackages[k].packageName)

\* len(bad) of CheckSafeSqlSsa: nothing without a main function
SsaFindings(u) == IF ~u.hasMain THEN 0 ELSE u.nonConst

\* the diagnostics of one parameter list under one catalog entry, from
\* parameter i (counted from 0) on
RECURSIVE AstParams(_, _, _, _)
AstParams(c, n, sqlPackage, i) ==
    IF i >= Len(c.params) THEN <<>>
    ELSE IF c.params[i + 1] \notin sqlPackage.paramNames
         THEN AstParams(c, n, sqlPackage, i + 1)
         ELSE IF c.args[i + 1] \notin {"BasicLit STRING", "BasicLit INT"}
              THEN << [call |-> n, arg |-> i, msg |-> "SQL query with non-static argument"] >>
                     \o AstParams(c, n, sqlPackage, i + 1)
              ELSE IF c.args[i + 1] # "BasicLit STRING"
                   THEN << [call |-> n, arg |-> i, msg |-> "SQL query with non-string literal"] >>
                          \o AstParams(c, n, sqlPackage, i + 1)
                   ELSE AstParams(c, n, sqlPackage, i + 1)

\* the loop over sqlPackages for the n-th call expression, from entry k on
RECURSIVE AstPackages(_, _, _)
AstPackages(c, n, k) ==
    IF k > Len(sqlPackages) THEN <<>>
    ELSE IF c.pkg # NoPkg /\ c.pkg # sqlPackages[k].packageName
         THEN AstPackages(c, n, k + 1)
         ELSE AstParams(c, n, sqlPackages[k], 0) \o AstPackages(c, n, k + 1)

\* the inspector's walk over the call expressions, from the n-th on
RECURSIVE AstReports(_, _)
AstReports(cs, n) ==
    IF n > Len(cs) THEN <<>>
    ELSE IF ~cs[n].isFunc
         THEN AstReports(cs, n + 1)
         ELSE AstPackages(cs[n], n, 1) \o AstReports(cs, n + 1)

NotReturned == "not returned"

\* the allowlist loop returns nil, nil
Run_Allowlisted ==
    /\ rpc = "start"
    /\ IsAllowlisted(unit.path)
    /\ ret' = [result |-> "nil", err |-> NoError]
    /\ rpc' = "done"
    /\ UNCHANGED <<unit, err, reports, printed, passes, engineVars, resolveVars, issueVars>>

\* err = CheckSafeSqlSsa(pass)
Run_CheckSafeSqlSsa ==
    /\ rpc = "start"
    /\ ~IsAllowlisted(unit.path)
    /\ printed' = SsaFindings(unit)
    /\ err' = IF SsaFindings(unit) > 0 THEN SsaError ELSE NoError
    /\ passes' = Append(passes, "CheckSafeSqlSsa")
    /\ rpc' = "ssa done"
    /\ UNCHANGED <<unit, reports, ret, engineVars, resolveVars, issueVars>>

\* err = CheckSafeSqlAst(pass)
Run_CheckSafeSqlAst ==
    /\ rpc = "ssa done"
    /\ reports' = AstReports(unit.calls, 1)
    /\ err' = IF Len(AstReports(unit.calls, 1)) # 0 THEN AstError ELSE NoError
    /\ passes' = Append(passes, "CheckSafeSqlAst")
    /\ rpc' = "ast done"
    /\ UNCHANGED <<unit, printed, ret, engineVars, resolveVars, issueVars>>

\* return nil, err
Run_Return ==
    /\ rpc = "ast done"
    /\ ret' = [result |-> "nil", err |-> err]
    /\ rpc' = "done"
    /\ UNCHANGED <<unit, err, reports, printed, passes, engineVars, resolveVars, issueVars>>

RunInit ==
    /\ unit \in Units
    /\ rpc = "start"
    /\ err = NoError
    /\ reports = <<>>
    /\ printed = 0
    /\ passes = <<>>
    /\ ret = NotReturned

RunIdle ==
    /\ unit = [path |-> <<>>, hasMain |-> FALSE, nonConst |-> 0, calls |-> <<>>]
    /\ rpc = "off"
    /\ err = NoError
    /\ reports = <<>>
    /\ printed = 0
    /\ passes = <<>>
    /\ ret = NotReturned

(***************************************************************************)
(* CheckIssues.  A line of the source file may hold a flaggable call and   *)
(* may hold a nolint:safesql directive; a directive on a line with a call  *)
(* belongs to that call, a directive on a line of its own belongs to the   *)
(* statement on the next line.  The positions handed in are lines of       *)
(* flaggable calls.                                                        *)
(***************************************************************************)
Lines == [call : BOOLEAN, nolint : BOOLEAN]

Files == UNION { [1..n -> Lines] : n \in 1..MaxLines }

\* the sequences of distinct lines of f that hold a call
TokensOf(f) ==
    { t \in UNION { [1..n -> 1..Len(f)] : n \in 0..MaxTokens } :
        /\ \A i \in 1..Len(t) : f[t[i]].call
        /\ \A i \in 1..Len(t) : \A j \in 1..Len(t) : i # j => t[i] # t[j] }

\* a check that takes any directive on the line before
IsSuppressed_AnyLineBefore(f, n) ==
    f[n].nolint \/ (n > 1 /\ f[n - 1].nolint)

\* the directive is on the line of the call, or alone on the line before it
IsSuppressed(f, n) ==
    f[n].nolint \/ (n > 1 /\ f[n - 1].nolint /\ ~f[n - 1].call)

CheckIssues(f, t) ==
    [i \in 1..Len(t) |-> [statement |-> t[i], ignored |-> IsSuppressed(f, t[i])]]

CheckIssuesCall ==
    /\ ~checked
    /\ issues' = CheckIssues(file, tokens)
    /\ checked' = TRUE
    /\ UNCHANGED <<file, tokens, engineVars, resolveVars, runVars>>

IssuesInit ==
    /\ file \in Files
    /\ tokens \in TokensOf(file)
    /\ issues = <<>>
    /\ checked = FALSE

IssuesIdle ==
    /\ file = <<>>
    /\ tokens = <<>>
    /\ issues = <<>>
    /\ checked = FALSE

(***************************************************************************)
(* The specifications: the call-graph pass, the sink resolver, run, the     *)
(* suppression check.                                                      *)
(***************************************************************************)
Init == EngineInit /\ ResolveIdle /\ RunIdle /\ IssuesIdle

Next == EngineNext

Spec == Init /\ [][Next]_vars

InitResolve == EngineIdle /\ ResolveInit /\ RunIdle /\ IssuesIdle

NextResolve == Resolve

SpecResolve == InitResolve /\ [][NextResolve]_vars

InitRun == EngineIdle /\ ResolveIdle /\ RunInit /\ IssuesIdle

NextRun ==
    \/ Run_Allowlisted
    \/ Run_CheckSafeSqlSsa
    \/ Run_CheckSafeSqlAst
    \/ Run_Return

SpecRun == InitRun /\ [][NextRun]_vars

InitIssues == EngineIdle /\ ResolveIdle /\ RunIdle /\ IssuesInit

NextIssues == CheckIssuesCall

SpecIssues == InitIssues /\ [][NextIssues]_vars

(***************************************************************************)
(* Properties of FindNonConstCalls.                                        *)
(***************************************************************************)
CatalogNames == { sqlPackages[k].packageName : k \in 1..Len(sqlPackages) }
Tracked      == { qms[k].SSA : k \in 1..Len(qms) }

\* the incoming call edges of the tracked sinks, each with its sink
SinkEdges ==
    UNION { { <<qms[k], e>> : e \in SeqToSet(In(cg, qms[k].SSA)) } : k \in 1..Len(qms) }

\* the caller is neither a tracked sink nor a function of a catalog library
NotSkipped(e) == e.Caller \notin Tracked /\ PkgPath(e.Caller) \notin CatalogNames

\* the operand count is the sink's parameter count, with or without receiver
ArgFits(e, m) == Len(e.Site.Args) \in {m.ArgCount, m.ArgCount + 1}

\* the operand at the sink's designated index, after receiver adjustment
QueryOperand(e, m) ==
    IF Len(e.Site.Args) = m.ArgCount + 1
    THEN e.Site.Args[m.Param + 2]
    ELSE e.Site.Args[m.Param + 1]

BoxedOf(x) == [op |-> "MakeInterface", typ |-> "interface", X |-> x]

\* a constant wrapped into an interface
IsBoxedConstant(v) == v.op = "MakeInterface" /\ v.X.op = "Const"

\* the edge the inner loop stands at is one whose operand gets classified
Examining ==
    /\ AtEdge
    /\ NotSkipped(CurEdge)
    /\ ArgFits(CurEdge, CurMethod)

\* C1 as stated: a call site with an incoming sink edge whose designated
\* argument is a constant is in no returned finding list.
C1_ConstEdgeSiteNeverReturned ==
    \A r \in 1..Len(returned) : \A p \in SinkEdges :
        (ArgFits(p[2], p[1]) /\ QueryOperand(p[2], p[1]).op = "Const")
            => p[2].Site \notin SeqToSet(returned[r])

\* C1, amended: an edge whose designated argument is a constant adds no
\* finding; every call site in the finding list (while it is built and when
\* it is returned) has an incoming sink edge, from a caller that is not
\* skipped, whose designated argument is not a constant.
C1_ReportedSiteHasNonConstEdge ==
    \A res \in {bad} \cup SeqToSet(returned) : \A s \in SeqToSet(res) :
        \E p \in SinkEdges :
            /\ p[2].Site = s
            /\ NotSkipped(p[2])
            /\ ArgFits(p[2], p[1])
            /\ QueryOperand(p[2], p[1]).op # "Const"

\* a call with a constant query was examined and is not in the returned
\* list, which holds another call site
C1_Witness ==
    /\ returned # <<>>
    /\ returned[1] # <<>>
    /\ \E p \in SinkEdges :
          /\ NotSkipped(p[2])
          /\ ArgFits(p[2], p[1])
          /\ QueryOperand(p[2], p[1]).op = "Const"
          /\ p[2].Site \notin SeqToSet(returned[1])

\* C2: every incoming sink edge whose caller is not skipped and whose
\* designated argument is a runtime value (not a constant, not a boxed
\* constant) has its call site in the returned finding list.
C2_RuntimeArgReported ==
    \A r \in 1..Len(returned) : \A p \in SinkEdges :
        ( /\ NotSkipped(p[2])
          /\ ArgFits(p[2], p[1])
          /\ QueryOperand(p[2], p[1]).op # "Const"
          /\ ~IsBoxedConstant(QueryOperand(p[2], p[1])) )
            => p[2].Site \in SeqToSet(returned[r])

\* C3: when the loop examines an edge whose designated argument is a string
\* literal wrapped into an interface, no finding is added; when it is a
\* wrapped variable with a second, non-constant writer, the call site is
\* added.
C3_BoxedConstantRecognition ==
    [][ (Examining /\ QueryOperand(CurEdge, CurMethod).op = "MakeInterface") =>
          /\ (QueryOperand(CurEdge, CurMethod).X.op = "Const" => bad' = bad)
          /\ (QueryOperand(CurEdge, CurMethod).X.op = "Phi"
                => bad' = Append(bad, CurEdge.Site)) ]_vars

\* C4: every wrapped designated argument other than a string-typed source
\* without referrers has its call site in the returned finding list.
C4_AmbiguousBoxReported ==
    \A r \in 1..Len(returned) : \A p \in SinkEdges :
        ( /\ NotSkipped(p[2])
          /\ ArgFits(p[2], p[1])
          /\ QueryOperand(p[2], p[1]).op = "MakeInterface"
          /\ ~( QueryOperand(p[2], p[1]).X.typ = "string"
                 /\ QueryOperand(p[2], p[1]).X.op = "Const" ) )
            => p[2].Site \in SeqToSet(returned[r])

\* the classification of one operand: a finding unless it is a constant or
\* a wrapped value without referrers or of a type other than string
Flagged(v) ==
    /\ v.op # "Const"
    /\ ~(v.op = "MakeInterface" /\ (v.X.op = "Const" \/ v.X.typ # "string"))

\* C8: for an edge that is not skipped, ArgCount+1 operands drop the first
\* and classify the one at Param of the rest, ArgCount operands classify
\* the one at Param, any other count aborts; after the abort no finding
\* list is ever returned.
C8_ArgCountHandling ==
    [][ /\ (AtEdge /\ NotSkipped(CurEdge)) =>
              LET args == CurEdge.Site.Args
                  m    == CurMethod
              IN  IF Len(args) = m.ArgCount + 1
                  THEN /\ pc' = "loop"
                       /\ bad' = IF Flagged(args[m.Param + 2])
                                 THEN Append(bad, CurEdge.Site) ELSE bad
                  ELSE IF Len(args) = m.ArgCount
                  THEN /\ pc' = "loop"
                       /\ bad' = IF Flagged(args[m.Param + 1])
                                 THEN Append(bad, CurEdge.Site) ELSE bad
                  ELSE pc' = "panic" /\ returned' = returned
        /\ (pc = "panic" => (pc' = "panic" /\ returned' = returned)) ]_vars

\* the pass has aborted on an operand count that fits no form, after it had
\* already found a non-constant call, and has returned nothing
C8_Witness ==
    /\ pc = "panic"
    /\ bad # <<>>
    /\ returned = <<>>

\* C10: any two calls of FindNonConstCalls in a row on the graph return the
\* same set of findings.
C10_Idempotent ==
    \A a \in 1..Len(returned) : \A b \in 1..Len(returned) :
        SeqToSet(returned[a]) = SeqToSet(returned[b])

\* two calls have returned, with findings
C10_Witness ==
    /\ Len(returned) >= 2
    /\ returned[2] # <<>>

(***************************************************************************)
(* Properties of FindQueryMethods.                                         *)
(***************************************************************************)
\* the methods the resolver is to return: exported methods of exported type
\* names with a parameter whose name the catalog entry recognizes
IsSink(o, k) ==
    /\ scope[o].exported
    /\ scope[o].isTypeName
    /\ scope[o].methods[k].exported
    /\ \E i \in 1..Len(scope[o].methods[k].params) :
          scope[o].methods[k].params[i] \in sqlPackages[entry].paramNames

\* the index, counted from 0, of the first parameter with a recognized name
FirstRecognized(params) ==
    CHOOSE i \in 0..(Len(params) - 1) :
        /\ params[i + 1] \in sqlPackages[entry].paramNames
        /\ \A h \in 0..(i - 1) : params[h + 1] \notin sqlPackages[entry].paramNames

SinkArgs ==
    { <<n, i>> \in (1..Len(unit.calls)) \X (1..MaxParams) :
        /\ unit.calls[n].isFunc
        /\ unit.calls[n].pkg \in CatalogNames
        /\ i <= Len(unit.calls[n].params)
        /\ \E k \in 1..Len(sqlPackages) :
              /\ sqlPackages[k].packageName = unit.calls[n].pkg
              /\ unit.calls[n].params[i] \in sqlPackages[k].paramNames }

\* C5: when run has returned for a unit that is not a catalog library, that
\* calls a sink, and in which every sink call passes an identifier of a
\* compile-time constant (so that FindNonConstCalls returns nothing for
\* it), no diagnostic was reported and the error returned is nil.
C5_ConstantIdentifierPasses ==
    ( /\ rpc = "done"
      /\ ~IsAllowlisted(unit.path)
      /\ unit.nonConst = 0
      /\ SinkArgs # {}
      /\ \A n \in 1..Len(unit.calls) : unit.calls[n].pkg \in CatalogNames
      /\ \A p \in SinkArgs : unit.calls[p[1]].args[p[2]] = "Ident" )
        => (reports = <<>> /\ ret.err = NoError)

\* C7: when run has returned for a unit whose package path equals a catalog
\* library identity, neither pass was performed, nothing was reported or
\* printed, and the error returned is nil.
C7_WholeLibraryExemption ==
    (rpc = "done" /\ unit.path \in CatalogNames)
        => /\ passes = <<>>
           /\ reports = <<>>
           /\ printed = 0
           /\ ret = [result |-> "nil", err |-> NoError]

\* run has returned for the unit github.com/jinzhu/gorm, which declares
\* main, has a non-constant sink call in its call graph and a sink call
\* with a runtime argument in its syntax
C7_Witness ==
    /\ rpc = "done"
    /\ unit.path = <<"github.com/jinzhu/gorm">>
    /\ unit.hasMain
    /\ unit.nonConst > 0
    /\ \E p \in SinkArgs : unit.calls[p[1]].args[p[2]] = "CallExpr"

\* the test FindNonConstCalls makes on the package of an edge's caller,
\* for a caller that belongs to the package with this path
SkippedByCallerPackage(path) ==
    \E k \in 1..Len(sqlPackages) : sqlPackages[k].packageName = path

\* C11: run exempts a unit exactly when FindNonConstCalls skips the edges
\* of callers of that package, which is exactly when the package path
\* equals a catalog library identity; a unit of any other path, one that
\* begins with a catalog identity included, goes through both passes.
C11_SameIdentityMatch ==
    rpc = "done" =>
        /\ (passes = <<>>) <=> SkippedByCallerPackage(unit.path)
        /\ SkippedByCallerPackage(unit.path) <=> unit.path \in CatalogNames
        /\ unit.path \notin CatalogNames
              => passes = <<"CheckSafeSqlSsa", "CheckSafeSqlAst">>

\* C12: when run has returned for a unit for which CheckSafeSqlSsa found a
\* non-constant sink call (and so returned an error), the error run
\* returned is not nil.
C12_SsaFindingsNotLost ==
    (rpc = "done" /\ "CheckSafeSqlSsa" \in SeqToSet(passes) /\ printed > 0)
        => ret.err # NoError

(***************************************************************************)
(* Properties of CheckIssues.                                              *)
(***************************************************************************)
\* a directive is attached to the statement on line n
HasOwnDirective(n) ==
    file[n].nolint \/ (n > 1 /\ file[n - 1].nolint /\ ~file[n - 1].call)

\* C6: CheckIssues returns one Issue per input position; an Issue is
\* ignored only if a directive is attached to its statement; of two calls
\* on adjacent lines of which only the first carries a directive, the first
\* is ignored and the second is not; a directive of a call on line N does
\* not suppress a call on a later line that has no directive of its own.
C6_SuppressionLocality ==
    checked =>
        /\ Len(issues) = Len(tokens)
        /\ \A i \in 1..Len(tokens) :
              /\ issues[i].statement = tokens[i]
              /\ issues[i].ignored => HasOwnDirective(tokens[i])
        /\ \A i \in 1..Len(tokens) : \A j \in 1..Len(tokens) :
              ( /\ tokens[j] = tokens[i] + 1
                /\ file[tokens[i]].nolint
                /\ ~file[tokens[j]].nolint )
                  => (issues[i].ignored /\ ~issues[j].ignored)
        /\ \A j \in 1..Len(tokens) : \A n \in 1..(tokens[j] - 1) :
              ( /\ file[n].call
                /\ file[n].nolint
                /\ ~HasOwnDirective(tokens[j]) )
                  => ~issues[j].ignored

\* two calls on adjacent lines, the first with a directive, the second
\* without: the first is ignored, the second is not
C6_Witness ==
    /\ checked
    /\ Len(tokens) = 2
    /\ tokens[2] = tokens[1] + 1
    /\ file[tokens[1]].nolint
    /\ ~file[tokens[2]].nolint
    /\ issues[1].ignored
    /\ ~issues[2].ignored

====
